---- MODULE Spec2Model ----
(***************************************************************************)
(* MongoDBStorage (src/optuna_mongodb_storage.py): the study and trial     *)
(* collections of the optuna MongoDB storage, and the storage calls that   *)
(* read and write them.  A collection is the sequence of its documents in  *)
(* insertion order.  A storage call is an operator from the collections    *)
(* to the collections it leaves, the exception it raises and the value it  *)
(* returns.  In the sequential specifications an action is one call, made  *)
(* as one atomic step; in the race specifications an action is one round   *)
(* trip of a call, and the calls of two workers interleave.                *)
(***************************************************************************)
EXTENDS Integers, Sequences, FiniteSets, TLC

VARIABLES
    studies,    \* the study collection
    trials,     \* the trial collection
    localTime,  \* the backend's clock, serverStatus()["localTime"], in seconds
    calls       \* per worker, the storage call it is in the middle of

vars == <<studies, trials, localTime, calls>>

\* what a call made as one atomic step leaves alone
env == <<localTime, calls>>

(***************************************************************************)
(* Bounds of the model: the number of documents a collection may hold.     *)
(***************************************************************************)
\* study documents, study registry specification
MaxStudies == 3
\* study documents, directions, study-id and allocation specifications
MaxStudyDocs == 2
\* trial documents, allocation specification
MaxTrials == 3
\* trial documents, study-id and trial specifications
MaxTrialDocs == 1
\* study documents, trial specifications
MaxTrialStudies == 1

MaxReadTrials == 2

MaxBeatTrials == 2

MaxLocalTime == 2

MaxRaceTrials == 2

(***************************************************************************)
(* Python values.  An Optional is a sequence of length at most one; a dict *)
(* is a function on its key set.                                           *)
(***************************************************************************)
None == <<>>

Some(x) == <<x>>

EmptyDict == [k \in {} |-> 0]

\* d[key] = value on a dict
DictOfOneKey(d, key, value) == [k \in {key} |-> value]

DictSet(d, key, value) == [k \in (DOMAIN d) \cup {key} |-> IF k = key THEN value ELSE d[k]]

(***************************************************************************)
(* Enumerations and the module-level translation tables.                   *)
(***************************************************************************)
StudyDirection == {"MAXIMIZE", "MINIMIZE", "NOT_SET"}

TrialState == {"RUNNING", "COMPLETE", "PRUNED", "FAIL", "WAITING"}

_str_to_study_direction_map ==
    [s \in {"maximize", "minimize", "not_set"} |->
        CASE s = "maximize" -> "MAXIMIZE"
          [] s = "minimize" -> "MINIMIZE"
          [] s = "not_set" -> "NOT_SET"]

_study_direction_to_str_map ==
    [d \in StudyDirection |->
        CHOOSE s \in DOMAIN _str_to_study_direction_map : _str_to_study_direction_map[s] = d]

_str_to_trial_state_map ==
    [s \in {"running", "complete", "pruned", "fail", "waiting"} |->
        CASE s = "running" -> "RUNNING"
          [] s = "complete" -> "COMPLETE"
          [] s = "pruned" -> "PRUNED"
          [] s = "fail" -> "FAIL"
          [] s = "waiting" -> "WAITING"]

_trial_state_to_str_map ==
    [t \in TrialState |->
        CHOOSE s \in DOMAIN _str_to_trial_state_map : _str_to_trial_state_map[s] = t]

\* TrialState.is_finished(), as called by check_trial_is_updatable
is_finished(state) == state # "RUNNING" /\ state # "WAITING"

(***************************************************************************)
(* Timestamps.  A datetime is [sec, usec]; str() of it prints the          *)
(* microseconds only when they are not zero.                               *)
(***************************************************************************)
Times == {[sec |-> 1, usec |-> 5]}

_datetime_to_str(time) ==
    IF time = None THEN None
    ELSE Some(IF time[1].usec = 0 THEN <<time[1].sec>> ELSE <<time[1].sec, time[1].usec>>)

\* TRUE when strptime(dt_str, "%Y-%m-%d %H:%M:%S.%f") raises ValueError: the
\* text has no microseconds part
strptime_fails(dt_str) == dt_str # None /\ Len(dt_str[1]) # 2

\* the value returned when strptime does not raise
_str_to_datetime(dt_str) ==
    IF dt_str = None THEN None
    ELSE Some([sec |-> dt_str[1][1], usec |-> dt_str[1][2]])

(***************************************************************************)
(* The backend's collection primitives.  No call of the storage removes a  *)
(* document, so the natural order find_one reads in is insertion order.    *)
(***************************************************************************)
\* a filter document {field: value, ...}, also the "$and" of such filters,
\* matches the documents that carry every value; {} matches every document
Matches(doc, filter) == \A k \in DOMAIN filter : doc[k] = filter[k]

Matching(table, filter) == {i \in DOMAIN table : Matches(table[i], filter)}

FirstMatching(table, filter) ==
    CHOOSE i \in Matching(table, filter) : \A j \in Matching(table, filter) : i <= j

count_documents(table, filter) == Cardinality(Matching(table, filter))

find_one(table, filter) ==
    IF Matching(table, filter) = {} THEN None
    ELSE Some(table[FirstMatching(table, filter)])

\* find(filter): the matching documents in natural order
find(table, filter) ==
    LET keep(doc) == Matches(doc, filter)
    IN  SelectSeq(table, keep)

\* find({"$and": [filter, {"$or": alternatives}]})
find_and_or(table, filter, alternatives) ==
    LET keep(doc) == /\ Matches(doc, filter)
                     /\ \E k \in DOMAIN alternatives : Matches(doc, alternatives[k])
    IN  SelectSeq(table, keep)

insert_one(table, doc) == Append(table, doc)

replace_one(table, filter, doc) ==
    IF Matching(table, filter) = {} THEN table
    ELSE [table EXCEPT ![FirstMatching(table, filter)] = doc]

\* update_one(filter, {"$set": {"deleted": True}})
update_one_set_deleted(table, filter) ==
    IF Matching(table, filter) = {} THEN table
    ELSE [table EXCEPT ![FirstMatching(table, filter)].deleted = TRUE]

(***************************************************************************)
(* What a call leaves behind: the two collections, the exception raised    *)
(* ("None" when the call returns) and the value returned.                  *)
(***************************************************************************)
Result(S, T, err, ret) == [studies |-> S, trials |-> T, err |-> err, ret |-> ret]

(***************************************************************************)
(* Study registry.                                                         *)
(***************************************************************************)
\* optuna.storages._base.DEFAULT_STUDY_NAME_PREFIX
DEFAULT_STUDY_NAME_PREFIX == "no-name-"

Digit == <<"0", "1", "2", "3", "4", "5", "6", "7", "8", "9">>

\* "{:0wd}".format(n)
RECURSIVE ZeroPadded(_, _)
ZeroPadded(n, w) ==
    IF w = 0 THEN (IF n = 0 THEN "" ELSE ZeroPadded(n \div 10, 0) \o Digit[(n % 10) + 1])
    ELSE ZeroPadded(n \div 10, w - 1) \o Digit[(n % 10) + 1]

\* "{}{:010d}".format(DEFAULT_STUDY_NAME_PREFIX, study_id)
default_study_name(study_id) == DEFAULT_STUDY_NAME_PREFIX \o ZeroPadded(study_id, 10)

\* the duplicate test of create_new_study
StudyNameTakenIgnoringDeleted(S, study_name) ==
    /\ study_name # None
    /\ count_documents(S, [study_name |-> study_name[1], deleted |-> FALSE]) # 0

study_name_taken(S, study_name) ==
    /\ study_name # None
    /\ count_documents(S, [study_name |-> study_name[1]]) # 0

\* study_id = self._study_table.count_documents({})
NewStudyIdCountingLive(S) == count_documents(S, [deleted |-> FALSE])

new_study_id(S) == count_documents(S, EmptyDict)

create_new_study(S, T, study_name, now) ==
    IF study_name_taken(S, study_name)
    THEN Result(S, T, "DuplicatedStudyError", None)
    ELSE LET study_id == new_study_id(S)
             name == IF study_name = None THEN default_study_name(study_id)
                     ELSE study_name[1]
             default_study_record ==
                 [study_name |-> name,
                  directions |-> <<_study_direction_to_str_map["NOT_SET"]>>,
                  user_attrs |-> EmptyDict,
                  system_attrs |-> EmptyDict,
                  study_id |-> study_id,
                  deleted |-> FALSE,
                  datetime_start |-> _datetime_to_str(Some(now))]
         IN  Result(insert_one(S, default_study_record), T, "None", Some(study_id))

\* TRUE when the check passes, FALSE when it raises KeyError
CheckStudyIdIgnoringDeleted(S, study_id) ==
    count_documents(S, [study_id |-> study_id]) = 1

_check_study_id(S, study_id) ==
    count_documents(S, [study_id |-> study_id, deleted |-> FALSE]) = 1

delete_study(S, T, study_id) ==
    IF ~_check_study_id(S, study_id) THEN Result(S, T, "KeyError", None)
    ELSE Result(update_one_set_deleted(S, [study_id |-> study_id]), T, "None", None)

_get_study_record(S, study_id) == find_one(S, [study_id |-> study_id])

\* get_study_id_from_name: the first document carrying the name, deleted or not
get_study_id_from_name(S, T, study_name) ==
    LET res == find_one(S, [study_name |-> study_name])
    IN  IF res = None THEN Result(S, T, "KeyError", None)
        ELSE Result(S, T, "None", Some(res[1].study_id))

set_study_user_attr(S, T, study_id, key, value) ==
    IF ~_check_study_id(S, study_id) THEN Result(S, T, "KeyError", None)
    ELSE LET study_record == _get_study_record(S, study_id)[1]
             written == [study_record EXCEPT
                            !.user_attrs = DictSet(study_record.user_attrs, key, value)]
         IN  Result(replace_one(S, [study_id |-> study_id], written), T,
                    "None", None)

set_study_system_attr(S, T, study_id, key, value) ==
    IF ~_check_study_id(S, study_id) THEN Result(S, T, "KeyError", None)
    ELSE LET study_record == _get_study_record(S, study_id)[1]
             written == [study_record EXCEPT
                            !.system_attrs = DictSet(study_record.system_attrs, key, value)]
         IN  Result(replace_one(S, [study_id |-> study_id], written), T,
                    "None", None)

\* [f(x) for x in seq]
MapSeq(f, seq) == [i \in 1..Len(seq) |-> f[seq[i]]]

\* the test that raises ValueError in set_study_directions
DirectionsNeverConflict(current_directions, directions) == FALSE

directions_conflict(current_directions, directions) ==
    /\ current_directions[1] # "NOT_SET"
    /\ current_directions # directions

set_study_directions(S, T, study_id, directions) ==
    IF ~_check_study_id(S, study_id) THEN Result(S, T, "KeyError", None)
    ELSE LET study_record == _get_study_record(S, study_id)[1]
             current_directions ==
                 MapSeq(_str_to_study_direction_map, study_record.directions)
             written == [study_record EXCEPT
                            !.directions = MapSeq(_study_direction_to_str_map, directions)]
         IN  IF Len(current_directions) = 0
             THEN \* current_directions[0] on an empty list
                  Result(S, T, "IndexError", None)
             ELSE IF directions_conflict(current_directions, directions)
             THEN Result(S, T, "ValueError", None)
             ELSE Result(replace_one(S, [study_id |-> study_id], written), T,
                         "None", None)

\* _get_study_record_field, with the value the getter makes of the field
_get_study_record_field(S, T, study_id, field) ==
    IF ~_check_study_id(S, study_id) THEN Result(S, T, "KeyError", None)
    ELSE Result(S, T, "None", Some(_get_study_record(S, study_id)[1][field]))

get_study_name_from_id(S, T, study_id) ==
    _get_study_record_field(S, T, study_id, "study_name")

get_study_directions(S, T, study_id) ==
    LET r == _get_study_record_field(S, T, study_id, "directions")
    IN  IF r.err # "None" THEN r
        ELSE Result(S, T, "None", Some(MapSeq(_str_to_study_direction_map, r.ret[1])))

get_study_user_attrs(S, T, study_id) ==
    _get_study_record_field(S, T, study_id, "user_attrs")

get_study_system_attrs(S, T, study_id) ==
    _get_study_record_field(S, T, study_id, "system_attrs")

\* TRUE when the conversion raises ValueError
convert_study_record_raises(study_record) == strptime_fails(study_record.datetime_start)

\* a StudySummary is the record of the arguments its constructor is given
_convert_study_record_to_summary(study_record) ==
    [study_name |-> study_record.study_name,
     direction |-> None,
     best_trial |-> None,
     user_attrs |-> study_record.user_attrs,
     system_attrs |-> study_record.system_attrs,
     n_trials |-> 0,
     datetime_start |-> _str_to_datetime(study_record.datetime_start),
     study_id |-> study_record.study_id,
     directions |-> MapSeq(_str_to_study_direction_map, study_record.directions)]

get_all_study_summaries(S, T, include_best_trial) ==
    LET study_records == find(S, [deleted |-> FALSE])
    IN  IF \E k \in DOMAIN study_records : convert_study_record_raises(study_records[k])
        THEN Result(S, T, "ValueError", None)
        ELSE Result(S, T, "None",
                    Some([k \in DOMAIN study_records |->
                             _convert_study_record_to_summary(study_records[k])]))

(***************************************************************************)
(* Trial store.  A distribution object is [cls, attributes]; its JSON form *)
(* is [name, attributes].  Objective and parameter values are integers.    *)
(***************************************************************************)
FloatDistribution(low, high) ==
    [cls |-> "FloatDistribution", attributes |-> [low |-> low, high |-> high]]

CategoricalDistribution(choices) ==
    [cls |-> "CategoricalDistribution", attributes |-> [choices |-> choices]]

\* optuna.distributions.distribution_to_json
distribution_to_json(dist) == [name |-> dist.cls, attributes |-> dist.attributes]

\* BaseDistribution.to_external_repr
to_external_repr(dist, param_value_internal) ==
    IF dist.cls = "CategoricalDistribution"
    THEN dist.attributes.choices[param_value_internal + 1]
    ELSE param_value_internal

\* {k: distribution_to_json(v) for k, v in trial.distributions.items()}
DistributionsToJson(distributions) ==
    [k \in DOMAIN distributions |-> distribution_to_json(distributions[k])]

\* {str(k): v for k, v in d.items()}
StrKeys(d) ==
    [s \in {ToString(k) : k \in DOMAIN d} |->
        d[CHOOSE k \in DOMAIN d : ToString(k) = s]]

_convert_frozen_trial_to_record(study_id, trial) ==
    [study_id |-> study_id,
     trial_id |-> trial._trial_id,
     number |-> trial.number,
     state |-> _trial_state_to_str_map[trial.state],
     params |-> trial.params,
     distributions |-> DistributionsToJson(trial.distributions),
     user_attrs |-> trial.user_attrs,
     system_attrs |-> trial.system_attrs,
     values |-> trial.values,
     intermediate_values |-> StrKeys(trial.intermediate_values),
     datetime_start |-> _datetime_to_str(trial.datetime_start),
     datetime_complete |-> _datetime_to_str(trial.datetime_complete),
     heartbeat |-> None]

\* trial_id = self._trial_table.count_documents({})
new_trial_id(T) == count_documents(T, EmptyDict)

\* trial_number = self._trial_table.count_documents({"study_id": study_id})
NewTrialNumberCountingAll(T, study_id) == count_documents(T, EmptyDict)

new_trial_number(T, study_id) == count_documents(T, [study_id |-> study_id])

\* the record create_new_trial builds before it allocates the identifiers
default_trial_record(study_id, template_trial, now) ==
    IF template_trial = None
    THEN [study_id |-> study_id,
          trial_id |-> -1,
          number |-> -1,
          state |-> _trial_state_to_str_map["RUNNING"],
          params |-> EmptyDict,
          distributions |-> EmptyDict,
          user_attrs |-> EmptyDict,
          system_attrs |-> EmptyDict,
          values |-> None,
          intermediate_values |-> EmptyDict,
          datetime_start |-> _datetime_to_str(Some(now)),
          datetime_complete |-> None,
          heartbeat |-> None]
    ELSE _convert_frozen_trial_to_record(study_id, template_trial[1])

create_new_trial(S, T, study_id, template_trial, now) ==
    IF ~_check_study_id(S, study_id) THEN Result(S, T, "KeyError", None)
    ELSE LET trial_id == new_trial_id(T)
             trial_number == new_trial_number(T, study_id)
             inserted == [default_trial_record(study_id, template_trial, now) EXCEPT
                             !.trial_id = trial_id, !.number = trial_number]
         IN  Result(S, insert_one(T, inserted), "None", Some(trial_id))

\* TRUE when the check passes, FALSE when it raises KeyError
_check_trial_id(T, trial_id) ==
    count_documents(T, [trial_id |-> trial_id]) = 1

_get_trial_record(T, trial_id) == find_one(T, [trial_id |-> trial_id])

\* TRUE when the check passes, FALSE when it raises RuntimeError
CheckUpdatableUnlessComplete(T, trial_id, trial_state) == trial_state # "COMPLETE"

check_trial_is_updatable(T, trial_id, trial_state) == ~is_finished(trial_state)

set_trial_param(S, T, trial_id, param_name, param_value_internal, distribution) ==
    IF ~_check_trial_id(T, trial_id) THEN Result(S, T, "KeyError", None)
    ELSE LET trial_record == _get_trial_record(T, trial_id)[1]
             written == [trial_record EXCEPT
                 !.params = DictSet(trial_record.params, param_name,
                                    to_external_repr(distribution, param_value_internal)),
                 !.distributions = DictSet(trial_record.distributions, param_name,
                                           distribution_to_json(distribution))]
         IN  IF ~check_trial_is_updatable(T, trial_id,
                                          _str_to_trial_state_map[trial_record.state])
             THEN Result(S, T, "RuntimeError", None)
             ELSE Result(S, replace_one(T, [trial_id |-> trial_id], written),
                         "None", None)

\* the test that makes set_trial_state_values return False
NoopOnSameState(current_state, state) == current_state = state

running_to_running(current_state, state) == current_state = state /\ state = "RUNNING"

set_trial_state_values(S, T, trial_id, state, values) ==
    IF ~_check_trial_id(T, trial_id) THEN Result(S, T, "KeyError", None)
    ELSE LET trial_record == _get_trial_record(T, trial_id)[1]
             current_state == _str_to_trial_state_map[trial_record.state]
             written == [trial_record EXCEPT
                            !.state = _trial_state_to_str_map[state],
                            !.values = values]
         IN  IF ~check_trial_is_updatable(T, trial_id, current_state)
             THEN Result(S, T, "RuntimeError", None)
             ELSE IF running_to_running(current_state, state)
             THEN Result(S, T, "None", Some(FALSE))
             ELSE Result(S, replace_one(T, [trial_id |-> trial_id], written),
                         "None", Some(TRUE))

set_trial_intermediate_value(S, T, trial_id, step, intermediate_value) ==
    IF ~_check_trial_id(T, trial_id) THEN Result(S, T, "KeyError", None)
    ELSE LET trial_record == _get_trial_record(T, trial_id)[1]
             written == [trial_record EXCEPT
                 !.intermediate_values = DictSet(trial_record.intermediate_values,
                                                 ToString(step), intermediate_value)]
         IN  IF ~check_trial_is_updatable(T, trial_id,
                                          _str_to_trial_state_map[trial_record.state])
             THEN Result(S, T, "RuntimeError", None)
             ELSE Result(S, replace_one(T, [trial_id |-> trial_id], written),
                         "None", None)

set_trial_user_attr(S, T, trial_id, key, value) ==
    Result(S, T, "NotImplementedError", None)

set_trial_system_attr(S, T, trial_id, key, value) ==
    Result(S, T, "NotImplementedError", None)

(***************************************************************************)
(* Reading trials back.  A FrozenTrial is the record of the arguments its  *)
(* constructor is given.                                                   *)
(***************************************************************************)
\* optuna.distributions.json_to_distribution
json_to_distribution(json) == [cls |-> json.name, attributes |-> json.attributes]

\* {k: json_to_distribution(v) for k, v in trial_record["distributions"].items()}
JsonToDistributions(distributions) ==
    [k \in DOMAIN distributions |-> json_to_distribution(distributions[k])]

\* the steps a stored key can spell
StepRange == 0..9

\* {int(key): value for key, value in d.items()}
IntKeys(d) ==
    [n \in {m \in StepRange : ToString(m) \in DOMAIN d} |-> d[ToString(n)]]

\* value passed to FrozenTrial
frozen_value(stored_values) ==
    IF stored_values = None THEN None
    ELSE IF Len(stored_values[1]) = 1 THEN Some(stored_values[1][1])
    ELSE None

\* values passed to FrozenTrial
frozen_values(stored_values) ==
    IF stored_values = None THEN None
    ELSE IF Len(stored_values[1]) = 1 THEN None
    ELSE stored_values

\* TRUE when the conversion raises ValueError
convert_record_raises(trial_record) ==
    \/ strptime_fails(trial_record.datetime_start)
    \/ strptime_fails(trial_record.datetime_complete)

_convert_record_to_frozen_trial(trial_record) ==
    [trial_id |-> trial_record.trial_id,
     number |-> trial_record.number,
     state |-> _str_to_trial_state_map[trial_record.state],
     params |-> trial_record.params,
     distributions |-> JsonToDistributions(trial_record.distributions),
     user_attrs |-> trial_record.user_attrs,
     system_attrs |-> trial_record.system_attrs,
     value |-> frozen_value(trial_record.values),
     values |-> frozen_values(trial_record.values),
     intermediate_values |-> IntKeys(trial_record.intermediate_values),
     datetime_start |-> _str_to_datetime(trial_record.datetime_start),
     datetime_complete |-> _str_to_datetime(trial_record.datetime_complete)]

get_trial(S, T, trial_id) ==
    IF ~_check_trial_id(T, trial_id) THEN Result(S, T, "KeyError", None)
    ELSE LET trial_record == _get_trial_record(T, trial_id)[1]
         IN  IF convert_record_raises(trial_record)
             THEN Result(S, T, "ValueError", None)
             ELSE Result(S, T, "None",
                         Some(_convert_record_to_frozen_trial(trial_record)))

_get_trial_record_field(S, T, trial_id, field) ==
    IF ~_check_trial_id(T, trial_id) THEN Result(S, T, "KeyError", None)
    ELSE Result(S, T, "None", Some(_get_trial_record(T, trial_id)[1][field]))

get_trial_params(S, T, trial_id) == _get_trial_record_field(S, T, trial_id, "params")

get_trial_user_attrs(S, T, trial_id) ==
    _get_trial_record_field(S, T, trial_id, "user_attrs")

get_trial_system_attrs(S, T, trial_id) ==
    _get_trial_record_field(S, T, trial_id, "system_attrs")

\* states is None or a tuple of trial states
get_all_trials(S, T, study_id, states) ==
    LET trial_records ==
            IF states = None THEN find(T, [study_id |-> study_id])
            ELSE IF Len(states[1]) = 1
            THEN find(T, [study_id |-> study_id,
                          state |-> _trial_state_to_str_map[states[1][1]]])
            ELSE find_and_or(T, [study_id |-> study_id],
                             [k \in DOMAIN states[1] |->
                                 [state |-> _trial_state_to_str_map[states[1][k]]]])
    IN  IF states # None /\ Len(states[1]) = 0 THEN Result(S, T, "None", Some(<<>>))
        ELSE IF \E k \in DOMAIN trial_records : convert_record_raises(trial_records[k])
        THEN Result(S, T, "ValueError", None)
        ELSE Result(S, T, "None",
                    Some([k \in DOMAIN trial_records |->
                             _convert_record_to_frozen_trial(trial_records[k])]))

(***************************************************************************)
(* Actions: one per storage call.  A call that would grow a collection     *)
(* past its bound is not made.                                             *)
(***************************************************************************)
(***************************************************************************)
(* Heartbeats.  A storage object is configured with heartbeat_interval and *)
(* grace_period, each an Optional number of seconds.                       *)
(***************************************************************************)
\* server_time is self._trial_table.command("serverStatus")["localTime"]
record_heartbeat(S, T, trial_id, server_time) ==
    IF ~_check_trial_id(T, trial_id) THEN Result(S, T, "KeyError", None)
    ELSE LET trial_record == _get_trial_record(T, trial_id)[1]
             written == [trial_record EXCEPT !.heartbeat = Some(server_time)]
         IN  Result(S, replace_one(T, [trial_id |-> trial_id], written), "None", None)

\* grace_period as _get_stale_trial_ids computes it
effective_grace_period(config) ==
    IF config.grace_period = None THEN 2 * config.heartbeat_interval[1]
    ELSE config.grace_period[1]

\* (current_time - last_heartbeat).total_seconds() > grace_period
StaleAtGracePeriod(current_time, last_heartbeat, grace_period) ==
    current_time - last_heartbeat >= grace_period

is_stale(current_time, last_heartbeat, grace_period) ==
    current_time - last_heartbeat > grace_period

_get_stale_trial_ids(S, T, study_id, config, current_time) ==
    LET grace_period == effective_grace_period(config)
        running_trial_records ==
            find(T, [study_id |-> study_id,
                     state |-> _trial_state_to_str_map["RUNNING"]])
        stale(trial_record) ==
            is_stale(current_time, trial_record.heartbeat[1], grace_period)
        stale_trial_records == SelectSeq(running_trial_records, stale)
    IN  IF config.heartbeat_interval = None THEN Result(S, T, "AssertionError", None)
        ELSE IF \E k \in DOMAIN running_trial_records :
                    running_trial_records[k].heartbeat = None
        THEN Result(S, T, "TypeError", None)
        ELSE Result(S, T, "None",
                    Some([k \in DOMAIN stale_trial_records |->
                             stale_trial_records[k].trial_id]))

\* the processes that share the two collections
Workers == {1, 2}

\* a worker that is not inside a call
Idle == [op |-> "idle"]

Init ==
    /\ studies = <<>>
    /\ trials = <<>>
    /\ localTime = 0
    /\ calls = [w \in Workers |-> Idle]

\* the call made when datetime.datetime.now() reads one of clock
CreateNewStudyAt(names, cap, clock) ==
    \E study_name \in names, now \in clock :
        LET r == create_new_study(studies, trials, study_name, now)
        IN  /\ Len(r.studies) <= cap
            /\ studies' = r.studies
            /\ trials' = r.trials
            /\ UNCHANGED env

CreateNewStudy(names, cap) == CreateNewStudyAt(names, cap, Times)

DeleteStudy(cap) ==
    \E study_id \in 0..cap :
        LET r == delete_study(studies, trials, study_id)
        IN  studies' = r.studies /\ trials' = r.trials /\ UNCHANGED env

GetStudyIdFromName(names) ==
    \E study_name \in names :
        LET r == get_study_id_from_name(studies, trials, study_name)
        IN  studies' = r.studies /\ trials' = r.trials /\ UNCHANGED env

SetStudyUserAttr(cap, keys, attr_values) ==
    \E study_id \in 0..cap, key \in keys, value \in attr_values :
        LET r == set_study_user_attr(studies, trials, study_id, key, value)
        IN  studies' = r.studies /\ trials' = r.trials /\ UNCHANGED env

SetStudySystemAttr(cap, keys, attr_values) ==
    \E study_id \in 0..cap, key \in keys, value \in attr_values :
        LET r == set_study_system_attr(studies, trials, study_id, key, value)
        IN  studies' = r.studies /\ trials' = r.trials /\ UNCHANGED env

SetStudyDirections(cap, direction_args) ==
    \E study_id \in 0..cap, directions \in direction_args :
        LET r == set_study_directions(studies, trials, study_id, directions)
        IN  studies' = r.studies /\ trials' = r.trials /\ UNCHANGED env

GetStudyNameFromId(cap) ==
    \E study_id \in 0..cap :
        LET r == get_study_name_from_id(studies, trials, study_id)
        IN  studies' = r.studies /\ trials' = r.trials /\ UNCHANGED env

GetStudyDirections(cap) ==
    \E study_id \in 0..cap :
        LET r == get_study_directions(studies, trials, study_id)
        IN  studies' = r.studies /\ trials' = r.trials /\ UNCHANGED env

GetStudyUserAttrs(cap) ==
    \E study_id \in 0..cap :
        LET r == get_study_user_attrs(studies, trials, study_id)
        IN  studies' = r.studies /\ trials' = r.trials /\ UNCHANGED env

GetStudySystemAttrs(cap) ==
    \E study_id \in 0..cap :
        LET r == get_study_system_attrs(studies, trials, study_id)
        IN  studies' = r.studies /\ trials' = r.trials /\ UNCHANGED env

CreateNewTrialAt(study_cap, templates, cap, clock) ==
    \E study_id \in 0..study_cap, template_trial \in templates, now \in clock :
        LET r == create_new_trial(studies, trials, study_id, template_trial, now)
        IN  /\ Len(r.trials) <= cap
            /\ studies' = r.studies
            /\ trials' = r.trials
            /\ UNCHANGED env

CreateNewTrial(study_cap, templates, cap) ==
    CreateNewTrialAt(study_cap, templates, cap, Times)

SetTrialParam(cap, names, internal_values, distributions) ==
    \E trial_id \in 0..cap, param_name \in names, param_value_internal \in internal_values,
       distribution \in distributions :
        LET r == set_trial_param(studies, trials, trial_id, param_name,
                                 param_value_internal, distribution)
        IN  studies' = r.studies /\ trials' = r.trials /\ UNCHANGED env

SetTrialStateValuesTo(cap, states, value_args) ==
    \E trial_id \in 0..cap, state \in states, values \in value_args :
        LET r == set_trial_state_values(studies, trials, trial_id, state, values)
        IN  studies' = r.studies /\ trials' = r.trials /\ UNCHANGED env

SetTrialStateValues(cap, value_args) ==
    SetTrialStateValuesTo(cap, TrialState, value_args)

SetTrialIntermediateValue(cap, steps, intermediate_values) ==
    \E trial_id \in 0..cap, step \in steps, intermediate_value \in intermediate_values :
        LET r == set_trial_intermediate_value(studies, trials, trial_id, step,
                                              intermediate_value)
        IN  studies' = r.studies /\ trials' = r.trials /\ UNCHANGED env

SetTrialUserAttr(cap, keys, attr_values) ==
    \E trial_id \in 0..cap, key \in keys, value \in attr_values :
        LET r == set_trial_user_attr(studies, trials, trial_id, key, value)
        IN  studies' = r.studies /\ trials' = r.trials /\ UNCHANGED env

SetTrialSystemAttr(cap, keys, attr_values) ==
    \E trial_id \in 0..cap, key \in keys, value \in attr_values :
        LET r == set_trial_system_attr(studies, trials, trial_id, key, value)
        IN  studies' = r.studies /\ trials' = r.trials /\ UNCHANGED env

GetTrialParams(cap) ==
    \E trial_id \in 0..cap :
        LET r == get_trial_params(studies, trials, trial_id)
        IN  studies' = r.studies /\ trials' = r.trials /\ UNCHANGED env

GetTrialUserAttrs(cap) ==
    \E trial_id \in 0..cap :
        LET r == get_trial_user_attrs(studies, trials, trial_id)
        IN  studies' = r.studies /\ trials' = r.trials /\ UNCHANGED env

GetTrialSystemAttrs(cap) ==
    \E trial_id \in 0..cap :
        LET r == get_trial_system_attrs(studies, trials, trial_id)
        IN  studies' = r.studies /\ trials' = r.trials /\ UNCHANGED env

GetAllStudySummaries ==
    \E include_best_trial \in BOOLEAN :
        LET r == get_all_study_summaries(studies, trials, include_best_trial)
        IN  studies' = r.studies /\ trials' = r.trials /\ UNCHANGED env

GetTrial(cap) ==
    \E trial_id \in 0..cap :
        LET r == get_trial(studies, trials, trial_id)
        IN  studies' = r.studies /\ trials' = r.trials /\ UNCHANGED env

GetAllTrials(study_cap, state_args) ==
    \E study_id \in 0..study_cap, states \in state_args :
        LET r == get_all_trials(studies, trials, study_id, states)
        IN  studies' = r.studies /\ trials' = r.trials /\ UNCHANGED env

RecordHeartbeat(cap) ==
    \E trial_id \in 0..cap :
        LET r == record_heartbeat(studies, trials, trial_id, localTime)
        IN  studies' = r.studies /\ trials' = r.trials /\ UNCHANGED env

GetStaleTrialIds(study_cap, configs) ==
    \E study_id \in 0..study_cap, config \in configs :
        LET r == _get_stale_trial_ids(studies, trials, study_id, config, localTime)
        IN  studies' = r.studies /\ trials' = r.trials /\ UNCHANGED env

\* a second passes on the backend's clock
Tick(cap) ==
    /\ localTime < cap
    /\ localTime' = localTime + 1
    /\ UNCHANGED <<studies, trials, calls>>

(***************************************************************************)
(* Interleaved calls.  A call is a sequence of round trips to the backend  *)
(* (count_documents, find_one, command, replace_one, update_one,           *)
(* insert_one); each round trip is one atomic step, and the steps of the   *)
(* calls of different workers interleave.  calls[w] holds the call worker  *)
(* w is inside: its name, the round trip it makes next, the id and the     *)
(* other arguments it was given, and the record it holds in memory.  The   *)
(* computation a call does between two round trips belongs to the step of  *)
(* the earlier one.                                                        *)
(***************************************************************************)
InFlight(op, pc, id, arg, record) ==
    [op |-> op, pc |-> pc, id |-> id, arg |-> arg, record |-> record]

TrialMutators ==
    {"record_heartbeat", "set_trial_param", "set_trial_state_values",
     "set_trial_intermediate_value"}

StudyMutators ==
    {"delete_study", "set_study_user_attr", "set_study_system_attr",
     "set_study_directions"}

\* self._check_trial_id(trial_id), the first round trip of every trial mutator;
\* the call ends with KeyError when the check fails
BeginTrialCall(w, cap, call_args) ==
    /\ calls[w] = Idle
    /\ \E trial_id \in 0..cap, call \in call_args :
           calls' = [calls EXCEPT ![w] =
                        IF _check_trial_id(trials, trial_id)
                        THEN InFlight(call.op, "find_one", trial_id, call.arg, None)
                        ELSE Idle]
    /\ UNCHANGED <<studies, trials, localTime>>

\* TRUE when the call raises RuntimeError on the record it read
trial_call_raises(call, trial_record) ==
    /\ call.op # "record_heartbeat"
    /\ ~check_trial_is_updatable(<<trial_record>>, call.id,
                                 _str_to_trial_state_map[trial_record.state])

\* TRUE when set_trial_state_values returns False without writing
trial_call_returns_false(call, trial_record) ==
    /\ call.op = "set_trial_state_values"
    /\ running_to_running(_str_to_trial_state_map[trial_record.state], call.arg.state)

\* the record read, as the call changes it in memory before it writes it back
trial_record_written(call, trial_record) ==
    CASE call.op = "set_trial_param" ->
             [trial_record EXCEPT
                 !.params = DictSet(trial_record.params, call.arg.param_name,
                                    to_external_repr(call.arg.distribution,
                                                     call.arg.param_value_internal)),
                 !.distributions = DictSet(trial_record.distributions,
                                           call.arg.param_name,
                                           distribution_to_json(call.arg.distribution))]
      [] call.op = "set_trial_state_values" ->
             [trial_record EXCEPT
                 !.state = _trial_state_to_str_map[call.arg.state],
                 !.values = call.arg.values]
      [] call.op = "set_trial_intermediate_value" ->
             [trial_record EXCEPT
                 !.intermediate_values =
                     DictSet(trial_record.intermediate_values,
                             ToString(call.arg.step), call.arg.intermediate_value)]
      [] call.op = "record_heartbeat" -> trial_record

\* trial_record = self._get_trial_record(trial_id), then the checks and the
\* changes the call makes on the record in memory
GetTrialRecord(w) ==
    /\ calls[w].op \in TrialMutators
    /\ calls[w].pc = "find_one"
    /\ LET call == calls[w]
           trial_record == _get_trial_record(trials, call.id)[1]
       IN  calls' = [calls EXCEPT ![w] =
                        IF \/ trial_call_raises(call, trial_record)
                           \/ trial_call_returns_false(call, trial_record)
                        THEN Idle
                        ELSE InFlight(call.op,
                                      IF call.op = "record_heartbeat"
                                      THEN "serverStatus" ELSE "replace_one",
                                      call.id, call.arg,
                                      Some(trial_record_written(call, trial_record)))]
    /\ UNCHANGED <<studies, trials, localTime>>

\* trial_record["heartbeat"] = self._trial_table.command("serverStatus")["localTime"]
ServerStatus(w) ==
    /\ calls[w].op = "record_heartbeat"
    /\ calls[w].pc = "serverStatus"
    /\ calls' = [calls EXCEPT ![w] =
                    InFlight(calls[w].op, "replace_one", calls[w].id, calls[w].arg,
                             Some([calls[w].record[1] EXCEPT
                                      !.heartbeat = Some(localTime)]))]
    /\ UNCHANGED <<studies, trials, localTime>>

\* self._trial_table.replace_one({"trial_id": trial_id}, trial_record)
ReplaceTrialRecord(w) ==
    /\ calls[w].op \in TrialMutators
    /\ calls[w].pc = "replace_one"
    /\ trials' = replace_one(trials, [trial_id |-> calls[w].id], calls[w].record[1])
    /\ calls' = [calls EXCEPT ![w] = Idle]
    /\ UNCHANGED <<studies, localTime>>

\* create_new_trial builds its record and runs self._check_study_id(study_id);
\* the call ends with KeyError when the check fails
BeginCreateNewTrial(w, study_cap, templates, cap) ==
    /\ calls[w] = Idle
    /\ Len(trials) + Cardinality({v \in Workers : calls[v].op = "create_new_trial"}) < cap
    /\ \E study_id \in 0..study_cap, template_trial \in templates, now \in Times :
           calls' = [calls EXCEPT ![w] =
                        IF _check_study_id(studies, study_id)
                        THEN InFlight("create_new_trial", "count_documents", study_id,
                                      template_trial,
                                      Some(default_trial_record(study_id, template_trial,
                                                                now)))
                        ELSE Idle]
    /\ UNCHANGED <<studies, trials, localTime>>

\* trial_id = self._trial_table.count_documents({})
CountTrials(w) ==
    /\ calls[w].op = "create_new_trial"
    /\ calls[w].pc = "count_documents"
    /\ calls' = [calls EXCEPT ![w] =
                    InFlight(calls[w].op, "count_study_documents", calls[w].id,
                             calls[w].arg,
                             Some([calls[w].record[1] EXCEPT
                                      !.trial_id = new_trial_id(trials)]))]
    /\ UNCHANGED <<studies, trials, localTime>>

\* trial_number = self._trial_table.count_documents({"study_id": study_id})
CountStudyTrials(w) ==
    /\ calls[w].op = "create_new_trial"
    /\ calls[w].pc = "count_study_documents"
    /\ calls' = [calls EXCEPT ![w] =
                    InFlight(calls[w].op, "insert_one", calls[w].id, calls[w].arg,
                             Some([calls[w].record[1] EXCEPT
                                      !.number = new_trial_number(trials, calls[w].id)]))]
    /\ UNCHANGED <<studies, trials, localTime>>

\* the record insert_one is given: the one the call filled in from its counts
RecordCountedAtInsert(T, call) ==
    [call.record[1] EXCEPT !.trial_id = new_trial_id(T),
                           !.number = new_trial_number(T, call.id)]

trial_record_to_insert(T, call) == call.record[1]

\* self._trial_table.insert_one(default_trial_record)
InsertTrial(w) ==
    /\ calls[w].op = "create_new_trial"
    /\ calls[w].pc = "insert_one"
    /\ trials' = insert_one(trials, trial_record_to_insert(trials, calls[w]))
    /\ calls' = [calls EXCEPT ![w] = Idle]
    /\ UNCHANGED <<studies, localTime>>

\* self._check_study_id(study_id), the first round trip of every study mutator;
\* the call ends with KeyError when the check fails
BeginStudyCall(w, cap, call_args) ==
    /\ calls[w] = Idle
    /\ \E study_id \in 0..cap, call \in call_args :
           calls' = [calls EXCEPT ![w] =
                        IF _check_study_id(studies, study_id)
                        THEN InFlight(call.op,
                                      IF call.op = "delete_study"
                                      THEN "update_one" ELSE "find_one",
                                      study_id, call.arg, None)
                        ELSE Idle]
    /\ UNCHANGED <<studies, trials, localTime>>

\* TRUE when set_study_directions raises IndexError or ValueError on the
\* record it read
study_call_raises(call, study_record) ==
    /\ call.op = "set_study_directions"
    /\ \/ Len(study_record.directions) = 0
       \/ directions_conflict(MapSeq(_str_to_study_direction_map,
                                     study_record.directions),
                              call.arg.directions)

\* the record read, as the call changes it in memory before it writes it back
study_record_written(call, study_record) ==
    CASE call.op = "set_study_user_attr" ->
             [study_record EXCEPT
                 !.user_attrs = DictSet(study_record.user_attrs, call.arg.key,
                                        call.arg.value)]
      [] call.op = "set_study_system_attr" ->
             [study_record EXCEPT
                 !.system_attrs = DictSet(study_record.system_attrs, call.arg.key,
                                          call.arg.value)]
      [] call.op = "set_study_directions" ->
             [study_record EXCEPT
                 !.directions = MapSeq(_study_direction_to_str_map,
                                       call.arg.directions)]

\* study_record = self._get_study_record(study_id), then the checks and the
\* changes the call makes on the record in memory
GetStudyRecord(w) ==
    /\ calls[w].op \in StudyMutators
    /\ calls[w].pc = "find_one"
    /\ LET call == calls[w]
           study_record == _get_study_record(studies, call.id)[1]
       IN  calls' = [calls EXCEPT ![w] =
                        IF study_call_raises(call, study_record) THEN Idle
                        ELSE InFlight(call.op, "replace_one", call.id, call.arg,
                                      Some(study_record_written(call, study_record)))]
    /\ UNCHANGED <<studies, trials, localTime>>

\* self._study_table.replace_one({"study_id": study_id}, study_record)
ReplaceStudyRecord(w) ==
    /\ calls[w].op \in StudyMutators
    /\ calls[w].pc = "replace_one"
    /\ studies' = replace_one(studies, [study_id |-> calls[w].id], calls[w].record[1])
    /\ calls' = [calls EXCEPT ![w] = Idle]
    /\ UNCHANGED <<trials, localTime>>

\* self._study_table.update_one({"study_id": study_id}, {"$set": {"deleted": True}})
UpdateStudyDeleted(w) ==
    /\ calls[w].op = "delete_study"
    /\ calls[w].pc = "update_one"
    /\ studies' = update_one_set_deleted(studies, [study_id |-> calls[w].id])
    /\ calls' = [calls EXCEPT ![w] = Idle]
    /\ UNCHANGED <<trials, localTime>>

(***************************************************************************)
(* Study registry specification: creation under explicit and generated     *)
(* names, logical deletion, lookup by name.                                *)
(***************************************************************************)
ExplicitNames == {"s1", default_study_name(0), default_study_name(1)}

NameArgs == {None} \cup {Some(n) : n \in ExplicitNames}

Next ==
    \/ CreateNewStudy(NameArgs, MaxStudies)
    \/ DeleteStudy(MaxStudies)
    \/ GetStudyIdFromName(ExplicitNames)

Spec == Init /\ [][Next]_vars

(***************************************************************************)
(* Directions specification: studies under generated names, deletion and   *)
(* every shape of direction sequence a caller can pass.                    *)
(***************************************************************************)
DirectionArgs ==
    {<<>>, <<"NOT_SET">>, <<"MINIMIZE">>, <<"MAXIMIZE">>, <<"MINIMIZE", "MAXIMIZE">>,
     <<"MINIMIZE", "NOT_SET">>, <<"NOT_SET", "MINIMIZE">>}

NextDirections ==
    \/ CreateNewStudy({None}, MaxStudyDocs)
    \/ DeleteStudy(MaxStudyDocs)
    \/ SetStudyDirections(MaxStudyDocs, DirectionArgs)
    \/ GetStudyDirections(MaxStudyDocs)

SpecDirections == Init /\ [][NextDirections]_vars

(***************************************************************************)
(* Study-id specification: every call that takes a study_id, on studies    *)
(* that exist, that were deleted and that were never created.              *)
(***************************************************************************)
AttrKeys == {"k"}

AttrValues == {1}

StudyIdDirectionArgs == {<<"MINIMIZE">>}

NextStudyIds ==
    \/ CreateNewStudy({None}, MaxStudyDocs)
    \/ DeleteStudy(MaxStudyDocs)
    \/ SetStudyUserAttr(MaxStudyDocs, AttrKeys, AttrValues)
    \/ SetStudySystemAttr(MaxStudyDocs, AttrKeys, AttrValues)
    \/ SetStudyDirections(MaxStudyDocs, StudyIdDirectionArgs)
    \/ GetStudyNameFromId(MaxStudyDocs)
    \/ GetStudyDirections(MaxStudyDocs)
    \/ GetStudyUserAttrs(MaxStudyDocs)
    \/ GetStudySystemAttrs(MaxStudyDocs)
    \/ CreateNewTrial(MaxStudyDocs, {None}, MaxTrialDocs)

SpecStudyIds == Init /\ [][NextStudyIds]_vars

(***************************************************************************)
(* Allocation specification: trials created, with and without a template,  *)
(* in studies that are created and deleted along the way.                  *)
(***************************************************************************)
WaitingTemplate ==
    [_trial_id |-> -1, number |-> -1, state |-> "WAITING",
     params |-> EmptyDict, distributions |-> EmptyDict,
     user_attrs |-> EmptyDict, system_attrs |-> EmptyDict,
     values |-> None, intermediate_values |-> EmptyDict,
     datetime_start |-> None, datetime_complete |-> None]

CompleteTemplate ==
    [_trial_id |-> -1, number |-> -1, state |-> "COMPLETE",
     params |-> [k \in {"x"} |-> 1],
     distributions |-> [k \in {"x"} |-> FloatDistribution(0, 1)],
     user_attrs |-> EmptyDict, system_attrs |-> EmptyDict,
     values |-> Some(<<1>>), intermediate_values |-> EmptyDict,
     datetime_start |-> Some(CHOOSE t \in Times : TRUE),
     datetime_complete |-> Some(CHOOSE t \in Times : TRUE)]

TemplateArgs == {None, Some(WaitingTemplate), Some(CompleteTemplate)}

NextAlloc ==
    \/ CreateNewStudy({None}, MaxStudyDocs)
    \/ DeleteStudy(MaxStudyDocs)
    \/ CreateNewTrial(MaxStudyDocs, TemplateArgs, MaxTrials)

SpecAlloc == Init /\ [][NextAlloc]_vars

(***************************************************************************)
(* Trial specification: the trial's mutators on trials created RUNNING, or *)
(* from a WAITING or a COMPLETE template.                                  *)
(***************************************************************************)
ValueArgs == {None, Some(<<1>>), Some(<<1, 2>>)}

ParamNames == {"x"}

InternalValues == {1}

DistributionArgs == {FloatDistribution(0, 1)}

Steps == {0}

IntermediateValues == {1}

NextTrials ==
    \/ CreateNewStudy({None}, MaxTrialStudies)
    \/ CreateNewTrial(MaxTrialStudies, TemplateArgs, MaxTrialDocs)
    \/ SetTrialParam(MaxTrialDocs, ParamNames, InternalValues, DistributionArgs)
    \/ SetTrialStateValues(MaxTrialDocs, ValueArgs)
    \/ SetTrialIntermediateValue(MaxTrialDocs, Steps, IntermediateValues)

SpecTrials == Init /\ [][NextTrials]_vars

(***************************************************************************)
(* Plain-trial specification: the same mutators when every trial is        *)
(* created without a template.                                             *)
(***************************************************************************)
PlainDistributionArgs ==
    {FloatDistribution(0, 1), CategoricalDistribution(<<10, 20>>)}

PlainSteps == {0, 1}

NextPlain ==
    \/ CreateNewStudy({None}, MaxTrialStudies)
    \/ CreateNewTrial(MaxTrialStudies, {None}, MaxTrialDocs)
    \/ SetTrialParam(MaxTrialDocs, ParamNames, InternalValues, PlainDistributionArgs)
    \/ SetTrialStateValues(MaxTrialDocs, ValueArgs)
    \/ SetTrialIntermediateValue(MaxTrialDocs, PlainSteps, IntermediateValues)

SpecPlain == Init /\ [][NextPlain]_vars

(***************************************************************************)
(* Read specification: trials are created, completed with every shape of   *)
(* values and read back one at a time and per study.  The clock can read   *)
(* a whole second, and a template can carry whole-second timestamps.       *)
(***************************************************************************)
WholeSecond == [sec |-> 2, usec |-> 0]

ClockTimes == Times \cup {WholeSecond}

ReadValueArgs == {None, Some(<<>>), Some(<<1>>), Some(<<1, 2>>)}

StateFilterArgs ==
    {None, Some(<<>>), Some(<<"RUNNING">>), Some(<<"COMPLETE">>),
     Some(<<"RUNNING", "COMPLETE">>), Some(<<"COMPLETE", "FAIL", "PRUNED">>)}

NextRead ==
    \/ CreateNewStudy({None}, MaxTrialStudies)
    \/ CreateNewTrialAt(MaxTrialStudies, {None}, MaxReadTrials, ClockTimes)
    \/ SetTrialStateValues(MaxReadTrials, ReadValueArgs)
    \/ SetTrialUserAttr(MaxReadTrials, AttrKeys, AttrValues)
    \/ SetTrialSystemAttr(MaxReadTrials, AttrKeys, AttrValues)
    \/ GetTrial(MaxReadTrials)
    \/ GetTrialUserAttrs(MaxReadTrials)
    \/ GetTrialSystemAttrs(MaxReadTrials)
    \/ GetAllTrials(MaxTrialStudies, StateFilterArgs)

SpecRead == Init /\ [][NextRead]_vars

(***************************************************************************)
(* Heartbeat specification: trials of two studies run, beat, finish and    *)
(* are scanned while the backend's clock advances.                         *)
(***************************************************************************)
HeartbeatConfigs ==
    {[heartbeat_interval |-> Some(1), grace_period |-> None],
     [heartbeat_interval |-> Some(1), grace_period |-> Some(1)],
     [heartbeat_interval |-> Some(2), grace_period |-> Some(0)],
     [heartbeat_interval |-> None, grace_period |-> Some(1)]}

NextHeartbeat ==
    \/ CreateNewStudy({None}, MaxStudyDocs)
    \/ CreateNewTrial(MaxStudyDocs, {None}, MaxBeatTrials)
    \/ SetTrialStateValuesTo(MaxBeatTrials, {"FAIL"}, {None})
    \/ RecordHeartbeat(MaxBeatTrials)
    \/ GetStaleTrialIds(MaxStudyDocs, HeartbeatConfigs)
    \/ Tick(MaxLocalTime)

SpecHeartbeat == Init /\ [][NextHeartbeat]_vars

(***************************************************************************)
(* Study-attribute specification: both attribute mappings of a study take  *)
(* new keys and new values for old keys, around a change of directions and *)
(* a deletion.                                                             *)
(***************************************************************************)
StudyAttrKeys == {"k", "m"}

StudyAttrValues == {1, 2}

NextStudyAttrs ==
    \/ CreateNewStudy({None}, MaxTrialStudies)
    \/ DeleteStudy(MaxTrialStudies)
    \/ SetStudyUserAttr(MaxTrialStudies, StudyAttrKeys, StudyAttrValues)
    \/ SetStudySystemAttr(MaxTrialStudies, StudyAttrKeys, {2})
    \/ SetStudyDirections(MaxTrialStudies, StudyIdDirectionArgs)
    \/ GetStudyUserAttrs(MaxTrialStudies)
    \/ GetStudySystemAttrs(MaxTrialStudies)

SpecStudyAttrs == Init /\ [][NextStudyAttrs]_vars

(***************************************************************************)
(* Parameter specification: parameters are written under two names and two *)
(* kinds of distribution and read back.  Trials start RUNNING at a clock   *)
(* reading or are copied from a template stamped on a whole second.        *)
(***************************************************************************)
RunningTemplate ==
    [_trial_id |-> -1, number |-> -1, state |-> "RUNNING",
     params |-> EmptyDict, distributions |-> EmptyDict,
     user_attrs |-> EmptyDict, system_attrs |-> EmptyDict,
     values |-> None, intermediate_values |-> EmptyDict,
     datetime_start |-> Some(WholeSecond), datetime_complete |-> None]

ReadParamNames == {"x", "y"}

ReadInternalValues == {0, 1}

NextParams ==
    \/ CreateNewStudy({None}, MaxTrialStudies)
    \/ CreateNewTrialAt(MaxTrialStudies,
                        {None, Some(WaitingTemplate), Some(RunningTemplate)},
                        MaxTrialDocs, ClockTimes)
    \/ SetTrialParam(MaxTrialDocs, ReadParamNames, ReadInternalValues,
                     PlainDistributionArgs)
    \/ SetTrialStateValuesTo(MaxTrialDocs, {"COMPLETE"}, {Some(<<1>>)})
    \/ GetTrial(MaxTrialDocs)
    \/ GetTrialParams(MaxTrialDocs)

SpecParams == Init /\ [][NextParams]_vars

(***************************************************************************)
(* Listing specification: the trials of two studies, in several states,    *)
(* are listed under every shape of state filter.                           *)
(***************************************************************************)
NextListing ==
    \/ CreateNewStudy({None}, MaxStudyDocs)
    \/ CreateNewTrialAt(MaxStudyDocs, {None}, MaxReadTrials, ClockTimes)
    \/ SetTrialStateValuesTo(MaxReadTrials, {"COMPLETE", "FAIL"}, {None})
    \/ GetAllTrials(MaxStudyDocs, StateFilterArgs)

SpecListing == Init /\ [][NextListing]_vars

(***************************************************************************)
(* Summary specification: studies are created under explicit and generated *)
(* names at any clock reading, deleted, and listed.                        *)
(***************************************************************************)
NextSummaries ==
    \/ CreateNewStudyAt(NameArgs, MaxStudies, ClockTimes)
    \/ DeleteStudy(MaxStudies)
    \/ GetAllStudySummaries

SpecSummaries == Init /\ [][NextSummaries]_vars

(***************************************************************************)
(* Trial-race specification: one trial is created, and two workers run the *)
(* trial's mutators and record_heartbeat on it round trip by round trip.   *)
(***************************************************************************)
TrialCallArgs ==
    {[op |-> "record_heartbeat", arg |-> EmptyDict],
     [op |-> "set_trial_param",
      arg |-> [param_name |-> "x", param_value_internal |-> 1,
               distribution |-> FloatDistribution(0, 1)]],
     [op |-> "set_trial_state_values",
      arg |-> [state |-> "COMPLETE", values |-> Some(<<1>>)]],
     [op |-> "set_trial_intermediate_value",
      arg |-> [step |-> 0, intermediate_value |-> 1]]}

NextTrialRaces ==
    \/ CreateNewStudy({None}, MaxTrialStudies)
    \/ CreateNewTrial(MaxTrialStudies, {None}, MaxTrialDocs)
    \/ \E w \in Workers :
           \/ BeginTrialCall(w, MaxTrialDocs, TrialCallArgs)
           \/ GetTrialRecord(w)
           \/ ServerStatus(w)
           \/ ReplaceTrialRecord(w)

SpecTrialRaces == Init /\ [][NextTrialRaces]_vars

(***************************************************************************)
(* Creation-race specification: two workers create trials round trip by    *)
(* round trip in studies that are created and deleted along the way.       *)
(***************************************************************************)
NextCreateRaces ==
    \/ CreateNewStudy({None}, MaxTrialStudies)
    \/ DeleteStudy(MaxTrialStudies)
    \/ \E w \in Workers :
           \/ BeginCreateNewTrial(w, MaxTrialStudies, {None, Some(WaitingTemplate)},
                                  MaxRaceTrials)
           \/ CountTrials(w)
           \/ CountStudyTrials(w)
           \/ InsertTrial(w)

SpecCreateRaces == Init /\ [][NextCreateRaces]_vars

(***************************************************************************)
(* Study-race specification: two workers delete a study and write its      *)
(* attributes and directions round trip by round trip.                     *)
(***************************************************************************)
StudyCallArgs ==
    {[op |-> "delete_study", arg |-> EmptyDict],
     [op |-> "set_study_user_attr", arg |-> [key |-> "k", value |-> 1]],
     [op |-> "set_study_system_attr", arg |-> [key |-> "k", value |-> 1]],
     [op |-> "set_study_directions", arg |-> [directions |-> <<"MINIMIZE">>]]}

NextStudyRaces ==
    \/ CreateNewStudy({None}, MaxTrialStudies)
    \/ \E w \in Workers :
           \/ BeginStudyCall(w, MaxTrialStudies, StudyCallArgs)
           \/ GetStudyRecord(w)
           \/ ReplaceStudyRecord(w)
           \/ UpdateStudyDeleted(w)

SpecStudyRaces == Init /\ [][NextStudyRaces]_vars

(***************************************************************************)
(* Properties.  A property of a call is stated of the call's outcome from  *)
(* every reachable state and for every argument the specification passes.  *)
(***************************************************************************)
AnyTime == CHOOSE t \in Times : TRUE

\* the stored names of the terminal states COMPLETE, PRUNED and FAIL
TerminalStored == {"complete", "pruned", "fail"}

\* a call that failed with exception err and wrote nothing
FailedWith(r, err) == r.err = err /\ r.studies = studies /\ r.trials = trials

\* C1: while a trial's stored state is COMPLETE, PRUNED or FAIL, set_trial_param,
\* set_trial_state_values (whatever state is requested) and
\* set_trial_intermediate_value on it raise the already-finished RuntimeError and
\* write nothing; while it is RUNNING or WAITING the same calls return normally.
C1_FinishedTrialRejectsUpdates ==
    \A i \in DOMAIN trials :
        LET trial_id == trials[i].trial_id
            AsClaimed(r) ==
                IF trials[i].state \in TerminalStored
                THEN FailedWith(r, "RuntimeError")
                ELSE r.err = "None"
        IN  /\ \A param_name \in ParamNames, v \in InternalValues, d \in DistributionArgs :
                   AsClaimed(set_trial_param(studies, trials, trial_id, param_name, v, d))
            /\ \A state \in TrialState, values \in ValueArgs :
                   AsClaimed(set_trial_state_values(studies, trials, trial_id, state, values))
            /\ \A step \in Steps, v \in IntermediateValues :
                   AsClaimed(set_trial_intermediate_value(studies, trials, trial_id, step, v))

\* a trial that took a parameter and an intermediate value while it ran, was
\* then failed, and now rejects all three mutators
C1_Witness ==
    \E i \in DOMAIN trials :
        /\ trials[i].state = "fail"
        /\ "x" \in DOMAIN trials[i].params
        /\ "0" \in DOMAIN trials[i].intermediate_values
        /\ set_trial_param(studies, trials, trials[i].trial_id, "x", 1,
                           FloatDistribution(0, 1)).err = "RuntimeError"
        /\ set_trial_state_values(studies, trials, trials[i].trial_id, "RUNNING",
                                  None).err = "RuntimeError"
        /\ set_trial_intermediate_value(studies, trials, trials[i].trial_id, 0,
                                        1).err = "RuntimeError"

\* a sequence of MAXIMIZE / MINIMIZE, not empty
Concrete(directions) ==
    /\ Len(directions) > 0
    /\ \A k \in 1..Len(directions) : directions[k] \in {"MAXIMIZE", "MINIMIZE"}

StoredDirections(i) == MapSeq(_str_to_study_direction_map, studies[i].directions)

\* C2, the calls: a study is created with directions [NOT_SET]; on a live study
\* whose directions are still [NOT_SET] a concrete sequence is stored; on a live
\* study with concrete directions a different sequence raises ValueError and
\* writes nothing, and the same sequence is accepted.
C2_DirectionCalls ==
    /\ LET r == create_new_study(studies, trials, None, AnyTime)
       IN  /\ r.err = "None"
           /\ r.studies[Len(r.studies)].directions = <<"not_set">>
    /\ \A i \in DOMAIN studies, directions \in DirectionArgs :
           LET r == set_study_directions(studies, trials, studies[i].study_id, directions)
           IN  ~studies[i].deleted =>
                   /\ (StoredDirections(i) = <<"NOT_SET">> /\ Concrete(directions)) =>
                          /\ r.err = "None"
                          /\ MapSeq(_str_to_study_direction_map,
                                    r.studies[i].directions) = directions
                   /\ (Concrete(StoredDirections(i)) /\ directions # StoredDirections(i)) =>
                          FailedWith(r, "ValueError")
                   /\ (Concrete(StoredDirections(i)) /\ directions = StoredDirections(i)) =>
                          /\ r.err = "None"
                          /\ r.studies = studies

\* C2, the history: no step changes directions that are concrete.
C2_DirectionsKept ==
    \A i \in DOMAIN studies :
        Concrete(StoredDirections(i)) =>
            /\ i \in DOMAIN studies'
            /\ studies'[i].directions = studies[i].directions

\* C2: directions start as [NOT_SET], are set once to a concrete sequence, and
\* from then on only the same sequence is accepted, so they never change again.
C2_DirectionsSetOnce == []C2_DirectionCalls /\ [][C2_DirectionsKept]_vars

\* a live study whose directions were set to a two-objective sequence, which a
\* different request can no longer replace
C2_Witness ==
    \E i \in DOMAIN studies :
        /\ ~studies[i].deleted
        /\ studies[i].directions = <<"minimize", "maximize">>
        /\ set_study_directions(studies, trials, studies[i].study_id,
                                <<"MAXIMIZE">>).err = "ValueError"
        /\ set_study_directions(studies, trials, studies[i].study_id,
                                <<"MINIMIZE", "MAXIMIZE">>).err = "None"

\* C3: trial_ids are pairwise distinct over all trials, and the k-th trial created
\* in a study (counting from 0) has number k, so a study's numbers are 0..k-1
\* without gap or duplicate, in creation order.
C3_TrialIdsAndNumbers ==
    /\ \A i, j \in DOMAIN trials : i # j => trials[i].trial_id # trials[j].trial_id
    /\ \A i \in DOMAIN trials :
           trials[i].number =
               Cardinality({j \in 1..(i - 1) : trials[j].study_id = trials[i].study_id})

\* trials of two studies created in turn, one from a template, one study deleted
\* after its trials were created
C3_Witness ==
    /\ Len(trials) = 3
    /\ trials[1].study_id = 0 /\ trials[2].study_id = 1 /\ trials[3].study_id = 0
    /\ trials[3].state = "waiting"
    /\ \E i \in DOMAIN studies : studies[i].study_id = 0 /\ studies[i].deleted

\* C4: the study_ids of the study records, deleted ones included, are pairwise
\* distinct, and a create_new_study that succeeds returns an id that no study
\* record carries.
C4_StudyIdsNeverReused ==
    /\ \A i, j \in DOMAIN studies : i # j => studies[i].study_id # studies[j].study_id
    /\ \A study_name \in NameArgs :
           LET r == create_new_study(studies, trials, study_name, AnyTime)
           IN  r.err = "None" =>
                   /\ Len(r.studies) = Len(studies) + 1
                   /\ r.studies[Len(r.studies)].study_id = r.ret[1]
                   /\ \A i \in DOMAIN studies : studies[i].study_id # r.ret[1]

\* two studies, both deleted, and the next study still gets a fresh id
C4_Witness ==
    /\ Len(studies) = 2
    /\ studies[1].deleted /\ studies[2].deleted
    /\ create_new_study(studies, trials, None, AnyTime).ret = Some(2)

\* C5: no two study records carry the same study_name.
C5_StudyNamesUnique ==
    \A i, j \in DOMAIN studies : i # j => studies[i].study_name # studies[j].study_name

\* the first study record carrying the name
FirstNamed(study_name) ==
    CHOOSE i \in DOMAIN studies :
        /\ studies[i].study_name = study_name
        /\ \A j \in DOMAIN studies : studies[j].study_name = study_name => i <= j

\* C6: create_new_study under an explicit name that a study record, deleted or
\* not, carries raises DuplicatedStudyError and inserts nothing, and the name
\* still resolves to the id of the first study that carries it.
C6_DuplicateNameRejected ==
    \A study_name \in ExplicitNames :
        (\E i \in DOMAIN studies : studies[i].study_name = study_name) =>
            LET r == create_new_study(studies, trials, Some(study_name), AnyTime)
                found == get_study_id_from_name(r.studies, r.trials, study_name)
            IN  /\ FailedWith(r, "DuplicatedStudyError")
                /\ found.err = "None"
                /\ found.ret = Some(studies[FirstNamed(study_name)].study_id)

\* the study named "s1" was deleted, another study was created since, and "s1"
\* is still refused
C6_Witness ==
    /\ Len(studies) = 3
    /\ studies[2].study_name = "s1" /\ studies[2].deleted
    /\ create_new_study(studies, trials, Some("s1"), AnyTime).err = "DuplicatedStudyError"

\* the study_id is that of a study record that is not deleted
LiveStudy(study_id) ==
    \E i \in DOMAIN studies : studies[i].study_id = study_id /\ ~studies[i].deleted

\* C7: for a study_id that no study record carries or whose study is deleted,
\* delete_study, the study attribute setters, set_study_directions, the study
\* getters and create_new_trial raise KeyError and leave both collections as
\* they were.
C7_MissingStudyRejected ==
    \A study_id \in 0..MaxStudyDocs :
        ~LiveStudy(study_id) =>
            /\ FailedWith(delete_study(studies, trials, study_id), "KeyError")
            /\ \A key \in AttrKeys, value \in AttrValues :
                   /\ FailedWith(set_study_user_attr(studies, trials, study_id, key, value),
                                 "KeyError")
                   /\ FailedWith(set_study_system_attr(studies, trials, study_id, key, value),
                                 "KeyError")
            /\ \A directions \in StudyIdDirectionArgs :
                   FailedWith(set_study_directions(studies, trials, study_id, directions),
                              "KeyError")
            /\ FailedWith(get_study_directions(studies, trials, study_id), "KeyError")
            /\ FailedWith(get_study_name_from_id(studies, trials, study_id), "KeyError")
            /\ FailedWith(get_study_user_attrs(studies, trials, study_id), "KeyError")
            /\ FailedWith(get_study_system_attrs(studies, trials, study_id), "KeyError")
            /\ FailedWith(create_new_trial(studies, trials, study_id, None, AnyTime),
                          "KeyError")

\* study 0 got an attribute and a trial and was then deleted: a second
\* delete_study and a create_new_trial on it fail, as they do on study_id 1,
\* which was never allocated
C7_Witness ==
    /\ Len(studies) = 1
    /\ studies[1].deleted
    /\ "k" \in DOMAIN studies[1].user_attrs
    /\ Len(trials) = 1
    /\ delete_study(studies, trials, 0).err = "KeyError"
    /\ create_new_trial(studies, trials, 0, None, AnyTime).err = "KeyError"
    /\ delete_study(studies, trials, 1).err = "KeyError"

\* C8: when every study record that carries a name is deleted, looking the name
\* up raises KeyError.
C8_DeletedNameNotFound ==
    \A study_name \in ExplicitNames :
        (/\ \E i \in DOMAIN studies : studies[i].study_name = study_name
         /\ \A i \in DOMAIN studies :
                studies[i].study_name = study_name => studies[i].deleted) =>
            get_study_id_from_name(studies, trials, study_name).err = "KeyError"

\* C9: on a trial that is RUNNING or WAITING, set_trial_state_values returns False
\* and writes nothing when the stored and the requested state are both RUNNING;
\* otherwise it returns True, stores the requested state and the passed values,
\* and keeps params, attrs, intermediate_values and the identifiers.
C9_StateValuesWritten ==
    \A i \in DOMAIN trials, state \in TrialState, values \in ValueArgs :
        trials[i].state \in {"running", "waiting"} =>
            LET r == set_trial_state_values(studies, trials, trials[i].trial_id, state,
                                            values)
            IN  IF trials[i].state = "running" /\ state = "RUNNING"
                THEN /\ r.err = "None"
                     /\ r.ret = Some(FALSE)
                     /\ r.trials = trials
                     /\ r.studies = studies
                ELSE /\ r.err = "None"
                     /\ r.ret = Some(TRUE)
                     /\ Len(r.trials) = Len(trials)
                     /\ _str_to_trial_state_map[r.trials[i].state] = state
                     /\ r.trials[i].values = values
                     /\ r.trials[i].params = trials[i].params
                     /\ r.trials[i].distributions = trials[i].distributions
                     /\ r.trials[i].user_attrs = trials[i].user_attrs
                     /\ r.trials[i].system_attrs = trials[i].system_attrs
                     /\ r.trials[i].intermediate_values = trials[i].intermediate_values
                     /\ r.trials[i].trial_id = trials[i].trial_id
                     /\ r.trials[i].study_id = trials[i].study_id
                     /\ r.trials[i].number = trials[i].number

\* a trial with a parameter and an intermediate value that was given values and
\* is RUNNING: RUNNING again is the no-op, WAITING with other values is written
C9_Witness ==
    \E i \in DOMAIN trials :
        /\ trials[i].state = "running"
        /\ trials[i].values = Some(<<1, 2>>)
        /\ "x" \in DOMAIN trials[i].params
        /\ "0" \in DOMAIN trials[i].intermediate_values
        /\ set_trial_state_values(studies, trials, trials[i].trial_id, "RUNNING",
                                  None).ret = Some(FALSE)
        /\ set_trial_state_values(studies, trials, trials[i].trial_id, "WAITING",
                                  Some(<<1>>)).ret = Some(TRUE)

\* C10: a trial created without a template has datetime_complete set exactly
\* when its state is COMPLETE, PRUNED or FAIL.
C10_CompleteStampedIffTerminal ==
    \A i \in DOMAIN trials :
        (trials[i].datetime_complete # None) <=> (trials[i].state \in TerminalStored)

\* the single-value and multi-value views the reconciliation rule gives a
\* stored values field
ReconciledAsClaimed(stored_values, frozen) ==
    IF stored_values = None \/ Len(stored_values[1]) = 0
    THEN frozen.value = None /\ frozen.values = None
    ELSE IF Len(stored_values[1]) = 1
    THEN frozen.value = Some(stored_values[1][1]) /\ frozen.values = None
    ELSE frozen.value = None /\ frozen.values = stored_values

\* C11: whenever get_trial or get_all_trials returns a stored trial, its values
\* are reconciled: stored values absent or of length 0 give value unset and
\* values unset; of length 1 give value equal to the element and values unset;
\* of length 2 or more give value unset and values equal to the stored sequence.
C11_ValuesReconciled ==
    \A i \in DOMAIN trials :
        LET one == get_trial(studies, trials, trials[i].trial_id)
            all == get_all_trials(studies, trials, trials[i].study_id, None)
        IN  /\ one.err = "None" => ReconciledAsClaimed(trials[i].values, one.ret[1])
            /\ all.err = "None" =>
                   \A k \in DOMAIN all.ret[1] :
                       all.ret[1][k].trial_id = trials[i].trial_id
                           => ReconciledAsClaimed(trials[i].values, all.ret[1][k])

\* the same rule without its length 0 case
C11_NonEmptyValuesReconciled ==
    \A i \in DOMAIN trials :
        LET one == get_trial(studies, trials, trials[i].trial_id)
        IN  (one.err = "None" /\ trials[i].values # Some(<<>>))
                => ReconciledAsClaimed(trials[i].values, one.ret[1])

\* the trial_ids the claim says a scan of study_id reports at localTime
StaleAsClaimed(study_id, config) ==
    {trials[i].trial_id : i \in
        {j \in DOMAIN trials :
            /\ trials[j].study_id = study_id
            /\ trials[j].state = "running"
            /\ localTime - trials[j].heartbeat[1] >
                   (IF config.grace_period # None THEN config.grace_period[1]
                    ELSE 2 * config.heartbeat_interval[1])}}

\* every RUNNING trial of study_id has a recorded heartbeat
AllRunningBeat(study_id) ==
    \A i \in DOMAIN trials :
        (trials[i].study_id = study_id /\ trials[i].state = "running")
            => trials[i].heartbeat # None

C13_TrialAttrsMerged ==
    \A i \in DOMAIN trials, key \in AttrKeys, value \in AttrValues :
        trials[i].state \in {"running", "waiting"} =>
            LET trial_id == trials[i].trial_id
                u == set_trial_user_attr(studies, trials, trial_id, key, value)
                s == set_trial_system_attr(studies, trials, trial_id, key, value)
            IN  /\ u.err = "None"
                /\ get_trial_user_attrs(u.studies, u.trials, trial_id).ret =
                       Some(DictSet(trials[i].user_attrs, key, value))
                /\ s.err = "None"
                /\ get_trial_system_attrs(s.studies, s.trials, trial_id).ret =
                       Some(DictSet(trials[i].system_attrs, key, value))
                /\ ~convert_record_raises(trials[i]) =>
                       /\ get_trial(u.studies, u.trials, trial_id).ret[1].user_attrs =
                              DictSet(trials[i].user_attrs, key, value)
                       /\ get_trial(s.studies, s.trials, trial_id).ret[1].system_attrs =
                              DictSet(trials[i].system_attrs, key, value)

\* C14: set_study_user_attr and set_study_system_attr on a stored, not deleted
\* study return normally and leave both collections as they were except for the
\* named mapping of that study, which becomes the previous mapping with value
\* under key (added or overwritten) and every other key kept; the other mapping,
\* study_name, study_id, directions and deleted of the study are unchanged, and
\* get_study_user_attrs / get_study_system_attrs return the new mapping.
C14_StudyAttrMerged ==
    \A i \in DOMAIN studies, key \in StudyAttrKeys, value \in StudyAttrValues :
        ~studies[i].deleted =>
            LET study_id == studies[i].study_id
                u == set_study_user_attr(studies, trials, study_id, key, value)
                s == set_study_system_attr(studies, trials, study_id, key, value)
                user_attrs ==
                    [k \in DOMAIN studies[i].user_attrs \cup {key} |->
                        IF k = key THEN value ELSE studies[i].user_attrs[k]]
                system_attrs ==
                    [k \in DOMAIN studies[i].system_attrs \cup {key} |->
                        IF k = key THEN value ELSE studies[i].system_attrs[k]]
            IN  /\ u.err = "None" /\ u.trials = trials
                /\ u.studies = [studies EXCEPT ![i].user_attrs = user_attrs]
                /\ get_study_user_attrs(u.studies, u.trials, study_id).ret =
                       Some(user_attrs)
                /\ s.err = "None" /\ s.trials = trials
                /\ s.studies = [studies EXCEPT ![i].system_attrs = system_attrs]
                /\ get_study_system_attrs(s.studies, s.trials, study_id).ret =
                       Some(system_attrs)

\* a live study whose directions were set and whose two mappings were written
\* key by key, where one more write overwrites "k" and keeps "m"
C14_Witness ==
    \E i \in DOMAIN studies :
        /\ ~studies[i].deleted
        /\ studies[i].directions = <<"minimize">>
        /\ studies[i].user_attrs = [k \in {"k", "m"} |-> IF k = "k" THEN 2 ELSE 1]
        /\ studies[i].system_attrs = [k \in {"m"} |-> 2]
        /\ set_study_user_attr(studies, trials, studies[i].study_id, "k", 1).studies[i]
               .user_attrs = [k \in {"k", "m"} |-> 1]
        /\ set_study_system_attr(studies, trials, studies[i].study_id, "k", 1).studies[i]
               .system_attrs = [k \in {"k", "m"} |-> IF k = "k" THEN 1 ELSE 2]

\* what the claim says get_trial returns after set_trial_param(trial_id,
\* param_name, v, d) on the stored trial trials[i]
ParamShown(i, param_name, v, d, frozen) ==
    /\ DOMAIN frozen.params = DOMAIN trials[i].params \cup {param_name}
    /\ frozen.params[param_name] = to_external_repr(d, v)
    /\ \A k \in DOMAIN trials[i].params \ {param_name} :
           frozen.params[k] = trials[i].params[k]
    /\ DOMAIN frozen.distributions = DOMAIN trials[i].distributions \cup {param_name}
    /\ frozen.distributions[param_name] = d
    /\ \A k \in DOMAIN trials[i].distributions \ {param_name} :
           frozen.distributions[k] = json_to_distribution(trials[i].distributions[k])
    /\ frozen.state = _str_to_trial_state_map[trials[i].state]
    /\ frozen.value = frozen_value(trials[i].values)
    /\ frozen.values = frozen_values(trials[i].values)
    /\ frozen.trial_id = trials[i].trial_id
    /\ frozen.number = trials[i].number

\* C15: set_trial_param on a stored RUNNING or WAITING trial returns normally,
\* and get_trial then returns the trial with params[param_name] equal to the
\* distribution's external representation of the internal value and
\* distributions[param_name] equal to the given distribution, a previous value
\* under the name replaced, every other parameter kept, and state, values,
\* trial_id and number as before.
C15_ParamReadBack ==
    \A i \in DOMAIN trials, param_name \in ReadParamNames, v \in ReadInternalValues,
       d \in PlainDistributionArgs :
        trials[i].state \notin TerminalStored =>
            LET trial_id == trials[i].trial_id
                r == set_trial_param(studies, trials, trial_id, param_name, v, d)
                g == get_trial(r.studies, r.trials, trial_id)
            IN  /\ r.err = "None"
                /\ g.err = "None"
                /\ ParamShown(i, param_name, v, d, g.ret[1])

\* the same for the trials whose stored timestamps carry microseconds
C15_ParamReadBackWithMicroseconds ==
    \A i \in DOMAIN trials, param_name \in ReadParamNames, v \in ReadInternalValues,
       d \in PlainDistributionArgs :
        (trials[i].state \notin TerminalStored /\ ~convert_record_raises(trials[i])) =>
            LET trial_id == trials[i].trial_id
                r == set_trial_param(studies, trials, trial_id, param_name, v, d)
                g == get_trial(r.studies, r.trials, trial_id)
            IN  /\ r.err = "None"
                /\ g.err = "None"
                /\ ParamShown(i, param_name, v, d, g.ret[1])

\* the positions of the stored trials the claim says are listed
ListedAsClaimed(study_id, states) ==
    {i \in DOMAIN trials :
        /\ trials[i].study_id = study_id
        /\ states # None =>
               \E k \in DOMAIN states[1] :
                   _str_to_trial_state_map[trials[i].state] = states[1][k]}

\* listed is a listing, one entry each, of the trials ListedAsClaimed names
ListsExactly(listed, study_id, states) ==
    /\ Len(listed) = Cardinality(ListedAsClaimed(study_id, states))
    /\ \A i \in ListedAsClaimed(study_id, states) :
           \E k \in DOMAIN listed :
               /\ listed[k].trial_id = trials[i].trial_id
               /\ listed[k].number = trials[i].number
               /\ listed[k].state = _str_to_trial_state_map[trials[i].state]

\* C16: get_all_trials(study_id, states=...) returns the empty list for an empty
\* states; with no states, exactly the stored trials whose study_id matches, one
\* per create_new_trial that succeeded on the study; and otherwise exactly the
\* stored trials of the study whose state is in states, whether states holds one
\* state or several.
C16_ListedExactly ==
    \A study_id \in 0..MaxStudyDocs, states \in StateFilterArgs :
        LET r == get_all_trials(studies, trials, study_id, states)
        IN  /\ r.err = "None"
            /\ ListsExactly(r.ret[1], study_id, states)

\* the same for the studies whose trials all have timestamps with microseconds
C16_ListedExactlyWithMicroseconds ==
    \A study_id \in 0..MaxStudyDocs, states \in StateFilterArgs :
        (\A i \in DOMAIN trials :
            trials[i].study_id = study_id => ~convert_record_raises(trials[i])) =>
            LET r == get_all_trials(studies, trials, study_id, states)
            IN  /\ r.err = "None"
                /\ ListsExactly(r.ret[1], study_id, states)

\* summaries holds one summary per stored study that is not deleted, with the
\* study's study_id, study_name, attributes and directions, and nothing else
SummarisesLiveStudies(summaries) ==
    /\ Len(summaries) = Cardinality({i \in DOMAIN studies : ~studies[i].deleted})
    /\ \A i \in DOMAIN studies :
           ~studies[i].deleted =>
               \E k \in DOMAIN summaries :
                   /\ summaries[k].study_id = studies[i].study_id
                   /\ summaries[k].study_name = studies[i].study_name
                   /\ summaries[k].user_attrs = studies[i].user_attrs
                   /\ summaries[k].system_attrs = studies[i].system_attrs
                   /\ summaries[k].directions =
                          MapSeq(_str_to_study_direction_map, studies[i].directions)
    /\ \A k \in DOMAIN summaries :
           \A i \in DOMAIN studies :
               studies[i].deleted => summaries[k].study_id # studies[i].study_id

\* C17: after any sequence of create_new_study and delete_study calls,
\* get_all_study_summaries returns exactly one summary for each study created
\* and not deleted, carrying its study_id, study_name, attributes and
\* directions, and none for a deleted study.
C17_SummariesOfLiveStudies ==
    \A include_best_trial \in BOOLEAN :
        LET r == get_all_study_summaries(studies, trials, include_best_trial)
        IN  /\ r.err = "None"
            /\ SummarisesLiveStudies(r.ret[1])

\* the same when every live study was created at a clock reading with
\* microseconds
C17_SummariesWithMicroseconds ==
    (\A i \in DOMAIN studies :
        ~studies[i].deleted => ~convert_study_record_raises(studies[i])) =>
        \A include_best_trial \in BOOLEAN :
            LET r == get_all_study_summaries(studies, trials, include_best_trial)
            IN  /\ r.err = "None"
                /\ SummarisesLiveStudies(r.ret[1])

\* a step keeps the state and the values of every trial stored as finished
TerminalTrialsKept ==
    \A i \in DOMAIN trials :
        trials[i].state \in TerminalStored =>
            /\ trials'[i].state = trials[i].state
            /\ trials'[i].values = trials[i].values

\* C18: with every round trip one atomic step and the calls of two workers
\* interleaved, a trial whose stored state is COMPLETE, PRUNED or FAIL keeps its
\* stored state and values in every later state, also when a record_heartbeat,
\* set_trial_param or set_trial_intermediate_value call that read the trial
\* while it was RUNNING writes its record back after the trial was completed.
C18_TerminalTrialImmutable == [][TerminalTrialsKept]_vars

\* two records of T belong to one study and carry one number and one trial_id
DuplicateNumber(T) ==
    \E i, j \in DOMAIN T :
        /\ i # j
        /\ T[i].study_id = T[j].study_id
        /\ T[i].number = T[j].number
        /\ T[i].trial_id = T[j].trial_id

\* two records of T belong to one study and carry one number
SameNumberTwice(T) ==
    \E i, j \in DOMAIN T :
        i # j /\ T[i].study_id = T[j].study_id /\ T[i].number = T[j].number

\* two records of T carry one trial_id
SameTrialIdTwice(T) ==
    \E i, j \in DOMAIN T : i # j /\ T[i].trial_id = T[j].trial_id

\* C19: with the two counts and the insert of create_new_trial as separate
\* atomic steps, a call that has taken its counts inserts them whatever was
\* inserted since: when another call has stored the same number in the same
\* study in between, the insert leaves two trial records of that study with
\* the same number, and when another call has stored the same trial_id, two
\* records with the same trial_id.  Two concurrent calls on one study reach
\* both at once (C19_Witness).
C19_StaleCountsInserted ==
    \A w \in Workers :
        (calls[w].op = "create_new_trial" /\ calls[w].pc = "insert_one") =>
            LET inserted == insert_one(trials, trial_record_to_insert(trials, calls[w]))
            IN  /\ (\E i \in DOMAIN trials :
                        /\ trials[i].study_id = calls[w].id
                        /\ trials[i].number = calls[w].record[1].number)
                       => SameNumberTwice(inserted)
                /\ (\E i \in DOMAIN trials :
                        trials[i].trial_id = calls[w].record[1].trial_id)
                       => SameTrialIdTwice(inserted)

\* both workers have finished a create_new_trial on the same study, and two
\* stored trials of it carry the same number and the same trial_id
C19_Witness ==
    /\ \A w \in Workers : calls[w] = Idle
    /\ Len(trials) = 2
    /\ DuplicateNumber(trials)

\* a step leaves every study stored as deleted deleted, and its existence check
\* failing
DeletedStudiesKept ==
    \A i \in DOMAIN studies :
        studies[i].deleted =>
            /\ studies'[i].deleted
            /\ ~_check_study_id(studies', studies[i].study_id)

\* C20: with every round trip one atomic step and the calls of two workers
\* interleaved, a study that delete_study has marked deleted stays deleted in
\* every later state and never passes _check_study_id again, also when a
\* set_study_user_attr, set_study_system_attr or set_study_directions call that
\* read the study record before the deletion writes the record back after it.
C20_DeletedStudyStaysDeleted == [][DeletedStudiesKept]_vars

\* C21: with heartbeats enabled, in every reachable state and for every study
\* _get_stale_trial_ids completes without raising and returns a list of trial
\* ids, also in the state right after create_new_trial, where the study holds a
\* RUNNING trial on which record_heartbeat was never called and whose heartbeat
\* field is still None.
C21_StaleScanNeverRaises ==
    \A study_id \in 0..MaxStudyDocs, config \in HeartbeatConfigs :
        config.heartbeat_interval # None =>
            LET r == _get_stale_trial_ids(studies, trials, study_id, config, localTime)
            IN  /\ r.err = "None"
                /\ r.ret # None

====
